---- MODULE Spec2Model ----
(***************************************************************************)
(* Model of the recipe search API (src/api.py): the cache-aside search     *)
(* path (get_recipes -> get_recipes_by_query -> get_cached_results /       *)
(* cache_results) and the click tracker (record_click -> store_click_data) *)
(* running against one shared Redis store.  Every call to an external      *)
(* dependency (Redis, the embeddings model, the vector index) is one step, *)
(* so that requests served by different workers interleave between calls.  *)
(***************************************************************************)
EXTENDS Integers, Sequences, FiniteSets, TLC

\* ------------------------------------------------------------------ bounds
NumSearch == 2      \* search requests in flight at the same time
NumClick == 2       \* click requests in flight at the same time
MaxPage == 2        \* largest page number requested
MaxDocs == 4        \* largest number of documents the index returns
MaxPageSize == 3    \* largest items_per_page of a direct call
MaxClicks == 4      \* click records begun in all

\* ------------------------------------------------------- program constants
CACHE_EXPIRATION == 3
DefaultItemsPerPage == 3
FullPage == 3
KNN == 100

Searchers == 1..NumSearch
Clickers == 1..NumClick

\* Query texts of search requests, and the (query, link) texts of clicks.
SearchQueries == {"Pasta", "pasta"}
\* Page numbers of requests: the endpoint is also asked for pages below 1.
EndpointPages == (-1)..MaxPage
DirectPages == 0..MaxPage
ClickPairs == {<<"a", "c">>, <<"a", "b:c">>, <<"a:b", "c">>}

VARIABLES
    cache,      \* Redis string keys: key -> [payload, ttl]
    clicks,     \* Redis hash keys: key -> value of the field "count"
    search,     \* per search request: position and locals
    resp,       \* per search request: what the caller got
    click,      \* per click request: position and locals
    cresp,      \* per click request: what the caller got
    recorded,   \* per click key: store_click_data calls that completed
    overlapped, \* click keys on which two store_click_data calls overlapped
    written,    \* per cache key the program wrote: the list cached, its age
    stalled,    \* the store has stopped answering
    reader      \* a client reading the pages of one result list in turn

vars == <<cache, clicks, search, resp, click, cresp, recorded, overlapped,
          written, stalled, reader>>
searchVars == <<cache, written, search, resp>>
clickVars == <<clicks, click, cresp, recorded, overlapped>>
envVars == <<stalled, reader>>

\* ------------------------------------------------------------- exceptions
ConnectionError == [cls |-> "ConnectionError", msg |-> "Error connecting to redis"]
OutOfMemoryError == [cls |-> "OutOfMemoryError", msg |-> "command not allowed when used memory > maxmemory"]
EncoderError == [cls |-> "RuntimeError", msg |-> "encoder failed"]
ResponseError == [cls |-> "ResponseError", msg |-> "idx:recipes: no such index"]
NoException == [cls |-> "", msg |-> ""]

\* ------------------------------------------------------ the vector index
\* A document of the index: the attributes it carries.
Doc(i) == [a \in {"$.title", "$.link"} |->
             IF a = "$.title" THEN "T" \o ToString(i) ELSE "L" \o ToString(i)]
BareDoc == [a \in {} |-> ""]

\* getattr(doc, name, default)
GetAttr(doc, name, default) == IF name \in DOMAIN doc THEN doc[name] ELSE default

\* The ranked document lists a KNN search can return: the first n documents
\* of the ranking, or a ranking of an index that has changed.
Ranked(n) == [i \in 1..n |-> Doc(i)]
SearchDocs ==
    {Ranked(n) : n \in 0..(IF MaxDocs < KNN THEN MaxDocs ELSE KNN)}
        \cup {<<Doc(2), Doc(1), BareDoc>>}

\* The loop that turns the documents into the results list.
ToItem(doc) == [title |-> GetAttr(doc, "$.title", "No title available"),
                link |-> GetAttr(doc, "$.link", "No link available")]
ResultsList(docs) == [i \in 1..Len(docs) |-> ToItem(docs[i])]

\* ------------------------------------------------- str(...) and eval(...)
\* str(results): the text of a list of dicts, as its sequence of lexemes.
ItemTokens(item) == <<"{", item.title, item.link, "}">>
RECURSIVE JoinItems(_)
JoinItems(results) ==
    IF results = <<>> THEN <<>>
    ELSE IF Len(results) = 1 THEN ItemTokens(results[1])
    ELSE ItemTokens(results[1]) \o <<",">> \o JoinItems(Tail(results))
Str(results) == <<"[">> \o JoinItems(results) \o <<"]">>

\* The lexeme a text of str(results) has at position i > 1 when the list goes
\* on there: "{", the title, the link, "}" and "," in turn; "" stands for the
\* two content lexemes.
Expected(i) ==
    CASE (i - 2) % 5 = 0 -> "{"
      [] (i - 2) % 5 \in {1, 2} -> ""
      [] (i - 2) % 5 = 3 -> "}"
      [] (i - 2) % 5 = 4 -> ","

\* t is the text str gives for some list of items.
WellFormed(t) ==
    /\ Len(t) >= 2
    /\ t[1] = "["
    /\ t[Len(t)] = "]"
    /\ \/ Len(t) = 2
       \/ /\ (Len(t) - 1) % 5 = 0
          /\ \A k \in 0..((Len(t) - 1) \div 5 - 1) :
                /\ t[2 + 5 * k] = "{"
                /\ t[5 + 5 * k] = "}"
                /\ (k > 0 => t[1 + 5 * k] = ",")

\* t is the beginning of such a text, cut off after a lexeme before its end.
CutOff(t) ==
    /\ t # <<>>
    /\ t[1] = "["
    /\ \A i \in 2..Len(t) :
          IF Expected(i) = "" THEN t[i] \notin {"[", "]", "{", "}", ","}
          ELSE t[i] = Expected(i)

\* The SyntaxError eval raises on a cut-off text: str(e) names the innermost
\* bracket left open, "{" inside an item and "[" between items.  On the empty
\* text it finds no expression at all.
SyntaxError(t) ==
    [cls |-> "SyntaxError",
     msg |-> IF t = <<>> THEN "invalid syntax (<string>, line 0)"
             ELSE "'" \o (IF Len(t) >= 2 /\ (Len(t) - 2) % 5 \in {0, 1, 2}
                          THEN "{" ELSE "[")
                  \o "' was never closed (<string>, line 1)"]

\* eval(text) of the texts a cache key can hold: the text of a list parses
\* back into the list, the empty text and a cut-off text raise.
Eval(t) ==
    CASE WellFormed(t) ->
           [raised |-> FALSE, exc |-> NoException,
            value |-> [k \in 1..((Len(t) - 1) \div 5) |->
                         [title |-> t[5 * k - 2], link |-> t[5 * k - 1]]]]
      [] t = <<>> \/ CutOff(t) ->
           [raised |-> TRUE, exc |-> SyntaxError(t), value |-> <<>>]

\* ------------------------------------------------------------ pagination
Min(a, b) == IF a < b THEN a ELSE b
Max(a, b) == IF a > b THEN a ELSE b

\* Mutant of PySlice: the item at index end belongs to the slice.
PySliceInclusive(lst, start, end) ==
    LET n == Len(lst)
        norm(i) == IF i < 0 THEN Max(0, n + i) ELSE Min(i, n)
        a == norm(start)
        b == Min(norm(end) + 1, n)
    IN  IF a < b THEN SubSeq(lst, a + 1, b) ELSE <<>>

\* lst[start:end] of Python
PySlice(lst, start, end) ==
    LET n == Len(lst)
        norm(i) == IF i < 0 THEN Max(0, n + i) ELSE Min(i, n)
        a == norm(start)
        b == norm(end)
    IN  IF a < b THEN SubSeq(lst, a + 1, b) ELSE <<>>

\* Mutant of Paginate: the first page starts one page late.
PaginateFromNextPage(lst, page, items_per_page) ==
    PySlice(lst, page * items_per_page, page * items_per_page + items_per_page)

Paginate(lst, page, items_per_page) ==
    LET start_idx == (page - 1) * items_per_page
        end_idx == start_idx + items_per_page
    IN  PySlice(lst, start_idx, end_idx)

\* ------------------------------------------------------------ cache store
\* Mutant of CacheKey: the query text is lower-cased before it is keyed.
CacheKeyCaseFolded(query_text) ==
    "search_cache:" \o (IF query_text = "Pasta" THEN "pasta" ELSE query_text)

CacheKey(query_text) == "search_cache:" \o query_text

\* REDIS_CLIENT.get(key): the stored text, or None
RedisGet(key) ==
    IF key \in DOMAIN cache THEN [none |-> FALSE, text |-> cache[key].payload]
    ELSE [none |-> TRUE, text |-> <<>>]

\* REDIS_CLIENT.setex(key, ttl, value)
\* Mutant of RedisSetex: a key that exists keeps its value (SET NX).
RedisSetexIfAbsent(key, ttl, value) ==
    [k \in DOMAIN cache \cup {key} |->
        IF k = key /\ k \notin DOMAIN cache
        THEN [payload |-> value, ttl |-> ttl] ELSE cache[k]]

\* REDIS_CLIENT.setex(key, ttl, value): the store after the call
RedisSetex(key, ttl, value) ==
    [k \in DOMAIN cache \cup {key} |->
        IF k = key THEN [payload |-> value, ttl |-> ttl] ELSE cache[k]]

\* Mutant of CacheResults: the page-sized head of the list is cached.
CacheResultsFirstPage(query_text, results) ==
    RedisSetex(CacheKey(query_text), CACHE_EXPIRATION,
               Str(SubSeq(results, 1, Min(Len(results), DefaultItemsPerPage))))

\* Mutant of CacheResults: the entry is kept twice as long.
CacheResultsKeptLonger(query_text, results) ==
    RedisSetex(CacheKey(query_text), CACHE_EXPIRATION + CACHE_EXPIRATION, Str(results))

\* cache_results(query_text, results): the store after the write
CacheResults(query_text, results) ==
    RedisSetex(CacheKey(query_text), CACHE_EXPIRATION, Str(results))

\* get_cached_results(query_text): Optional list, or the exception of eval
GetCachedResults(query_text) ==
    LET cached_results == RedisGet(CacheKey(query_text))
    IN  IF ~cached_results.none /\ cached_results.text # <<>>
        THEN LET e == Eval(cached_results.text)
             IN  [raised |-> e.raised, exc |-> e.exc, none |-> FALSE, value |-> e.value]
        ELSE [raised |-> FALSE, exc |-> NoException, none |-> TRUE, value |-> <<>>]

\* ------------------------------------------------------- search requests
\* One call to an external dependency, as a request's call log records it:
\* exc is the class of the exception the call raised, "" when it returned.
Call(op, key, exc) == [op |-> op, key |-> key, exc |-> exc]

IdleSearch == [pc |-> "idle", via |-> "none", query |-> "", page |-> 0,
               ipp |-> 0, cached |-> <<>>, results |-> <<>>, log |-> <<>>]
NoResp == [type |-> "none"]

\* What get_recipes_by_query hands to its caller.
Return(value) == [type |-> "return", value |-> value]
Raise(exc) == [type |-> "raise", exc |-> exc]

\* Mutant of EndpointResponse: a failed search is answered as an empty page.
EndpointResponseEmptyOnError(query, page, outcome) ==
    LET results == IF outcome.type = "raise" THEN <<>> ELSE outcome.value
    IN  [type |-> "page", query |-> query, page |-> page, results |-> results,
         has_more |-> (Len(results) = FullPage)]

\* Mutant of EndpointResponse: any non-empty page announces more results.
EndpointResponseMoreIfAny(query, page, outcome) ==
    IF outcome.type = "raise"
    THEN [type |-> "error", error |-> outcome.exc.msg]
    ELSE [type |-> "page", query |-> query, page |-> page,
          results |-> outcome.value,
          has_more |-> (Len(outcome.value) > 0)]

\* get_recipes: the response built from the outcome of get_recipes_by_query
EndpointResponse(query, page, outcome) ==
    IF outcome.type = "raise"
    THEN [type |-> "error", error |-> outcome.exc.msg]
    ELSE [type |-> "page", query |-> query, page |-> page,
          results |-> outcome.value,
          has_more |-> (Len(outcome.value) = FullPage)]

\* What the caller of request s gets for the outcome of get_recipes_by_query:
\* the outcome itself, or the response get_recipes builds from it.
Answer(s, outcome) ==
    IF search[s].via = "get_recipes"
    THEN EndpointResponse(search[s].query, search[s].page, outcome)
    ELSE outcome

\* The caller of request s gets the outcome of get_recipes_by_query.
Complete(s, outcome, log) ==
    /\ search' = [search EXCEPT ![s].pc = "done", ![s].log = log]
    /\ resp' = [resp EXCEPT ![s] = Answer(s, outcome)]

\* Mutant of GetRecipes: only negative pages are rejected.
GetRecipesRejectNegative(s, query, page) ==
    /\ search[s].pc = "idle"
    /\ IF page < 0
       THEN /\ search' = [search EXCEPT ![s] =
                  [IdleSearch EXCEPT !.pc = "done", !.via = "get_recipes",
                                     !.query = query, !.page = page]]
            /\ resp' = [resp EXCEPT ![s] =
                  [type |-> "error", error |-> "Page number must be greater than 0"]]
       ELSE /\ search' = [search EXCEPT ![s] =
                  [IdleSearch EXCEPT !.pc = "get", !.via = "get_recipes",
                                     !.query = query, !.page = page,
                                     !.ipp = DefaultItemsPerPage]]
            /\ UNCHANGED resp
    /\ UNCHANGED <<cache, written, clickVars, envVars>>

\* GET /recipes/query={query}&page={page}
GetRecipes(s, query, page) ==
    /\ search[s].pc = "idle"
    /\ IF page < 1
       THEN /\ search' = [search EXCEPT ![s] =
                  [IdleSearch EXCEPT !.pc = "done", !.via = "get_recipes",
                                     !.query = query, !.page = page]]
            /\ resp' = [resp EXCEPT ![s] =
                  [type |-> "error", error |-> "Page number must be greater than 0"]]
       ELSE /\ search' = [search EXCEPT ![s] =
                  [IdleSearch EXCEPT !.pc = "get", !.via = "get_recipes",
                                     !.query = query, !.page = page,
                                     !.ipp = DefaultItemsPerPage]]
            /\ UNCHANGED resp
    /\ UNCHANGED <<cache, written, clickVars, envVars>>

\* A direct call get_recipes_by_query(query_text, page, items_per_page)
GetRecipesByQuery(s, query_text, page, items_per_page) ==
    /\ search[s].pc = "idle"
    /\ search' = [search EXCEPT ![s] =
          [IdleSearch EXCEPT !.pc = "get", !.via = "get_recipes_by_query",
                             !.query = query_text, !.page = page,
                             !.ipp = items_per_page]]
    /\ UNCHANGED <<cache, written, resp, clickVars, envVars>>

\* cached_results = get_cached_results(query_text), and the hit branch
CacheLookup(s) ==
    /\ search[s].pc = "get"
    /\ LET r == search[s]
           log(exc) == Append(r.log, Call("get", CacheKey(r.query), exc))
           cached == GetCachedResults(r.query)
       IN  \/ Complete(s, Raise(ConnectionError), log(ConnectionError.cls))
           \/ IF cached.raised
              THEN Complete(s, Raise(cached.exc), log(""))
              ELSE IF ~cached.none /\ cached.value # <<>>
              THEN /\ search' = [search EXCEPT ![s].pc = "done", ![s].log = log(""),
                                            ![s].cached = cached.value]
                   /\ resp' = [resp EXCEPT ![s] =
                        Answer(s, Return(Paginate(cached.value, r.page, r.ipp)))]
              ELSE /\ search' = [search EXCEPT ![s].pc = "encode", ![s].log = log("")]
                   /\ UNCHANGED resp
    /\ UNCHANGED <<cache, written, clickVars, envVars>>

\* encoded_query = EMBEDDINGS_MODEL.encode([query_text]).tolist()[0]
Encode(s) ==
    /\ search[s].pc = "encode"
    /\ LET r == search[s]
           log(exc) == Append(r.log, Call("encode", r.query, exc))
       IN  \/ Complete(s, Raise(EncoderError), log(EncoderError.cls))
           \/ /\ search' = [search EXCEPT ![s].pc = "search", ![s].log = log("")]
              /\ UNCHANGED resp
    /\ UNCHANGED <<cache, written, clickVars, envVars>>

\* REDIS_CLIENT.ft("idx:recipes").search(QUERY, ...).docs and the loop over it
Search(s) ==
    /\ search[s].pc = "search"
    /\ LET r == search[s]
           log(exc) == Append(r.log, Call("search", "idx:recipes", exc))
       IN  \/ Complete(s, Raise(ResponseError), log(ResponseError.cls))
           \/ \E result_docs \in SearchDocs :
                 /\ search' = [search EXCEPT ![s].pc = "setex", ![s].log = log(""),
                                  ![s].results = ResultsList(result_docs)]
                 /\ UNCHANGED resp
    /\ UNCHANGED <<cache, written, clickVars, envVars>>

\* Mutant of Swallowed: no exception of cache_results is handled.
SwallowedNone(exc) == FALSE

\* The record of the write of results under key: age 0.
Written(key, results) ==
    [k \in DOMAIN written \cup {key} |->
        IF k = key THEN [results |-> results, age |-> 0] ELSE written[k]]

\* The exceptions of cache_results that get_recipes_by_query handles.
Swallowed(exc) == exc.cls = "OutOfMemoryError"

\* Mutant of CacheWrite: the list is sliced first and the page is cached.
CacheWriteCachesPage(s) ==
    /\ search[s].pc = "setex"
    /\ LET r == search[s]
           log(exc) == Append(r.log, Call("setex", CacheKey(r.query), exc))
           page == Paginate(r.results, r.page, r.ipp)
       IN  \/ /\ cache' = CacheResults(r.query, page)
              /\ written' = Written(CacheKey(r.query), r.results)
              /\ Complete(s, Return(page), log(""))
           \/ \E exc \in {OutOfMemoryError, ConnectionError} :
                 /\ UNCHANGED <<cache, written>>
                 /\ IF Swallowed(exc)
                    THEN Complete(s, Return(page), log(exc.cls))
                    ELSE Complete(s, Raise(exc), log(exc.cls))
    /\ UNCHANGED <<clickVars, envVars>>

\* cache_results(query_text, results_list) inside its try, then the slice
CacheWrite(s) ==
    /\ search[s].pc = "setex"
    /\ LET r == search[s]
           log(exc) == Append(r.log, Call("setex", CacheKey(r.query), exc))
           page == Paginate(r.results, r.page, r.ipp)
       IN  \/ /\ cache' = CacheResults(r.query, r.results)
              /\ written' = Written(CacheKey(r.query), r.results)
              /\ Complete(s, Return(page), log(""))
           \/ \E exc \in {OutOfMemoryError, ConnectionError} :
                 /\ UNCHANGED <<cache, written>>
                 /\ IF Swallowed(exc)
                    THEN Complete(s, Return(page), log(exc.cls))
                    ELSE Complete(s, Raise(exc), log(exc.cls))
    /\ UNCHANGED <<clickVars, envVars>>

\* The caller has its answer; the slot serves the next request.
FinishSearch(s) ==
    /\ search[s].pc = "done"
    /\ search' = [search EXCEPT ![s] = IdleSearch]
    /\ resp' = [resp EXCEPT ![s] = NoResp]
    /\ UNCHANGED <<cache, written, clickVars, envVars>>

\* One time unit passes: Redis expires the keys whose TTL has elapsed.
Tick ==
    /\ cache' = [k \in {j \in DOMAIN cache : cache[j].ttl > 1} |->
                    [cache[k] EXCEPT !.ttl = @ - 1]]
    /\ written' = [k \in {j \in DOMAIN written : j \in DOMAIN cache'} |->
                      [written[k] EXCEPT !.age = @ + 1]]
    /\ DOMAIN cache # {}
    /\ UNCHANGED <<search, resp, clickVars, envVars>>

\* --------------------------------------------------------- click tracker
ClickKey(query, link) == "clicks:" \o query \o ":" \o link
ClickKeys == {ClickKey(p[1], p[2]) : p \in ClickPairs}

\* REDIS_CLIENT.exists(key)
RedisExists(key) == key \in DOMAIN clicks

\* Mutant of RedisHIncrBy: the field is set to the amount, not raised by it.
RedisHIncrBySets(key, amount) ==
    [k \in DOMAIN clicks \cup {key} |-> IF k = key THEN amount ELSE clicks[k]]

\* REDIS_CLIENT.hincrby(key, "count", amount): a missing field counts from 0
RedisHIncrBy(key, amount) ==
    [k \in DOMAIN clicks \cup {key} |->
        IF k = key THEN (IF key \in DOMAIN clicks THEN clicks[key] ELSE 0) + amount
        ELSE clicks[k]]

\* Mutant of RedisHSet: the value is added to the count the key has.
RedisHSetAdds(key, value) ==
    [k \in DOMAIN clicks \cup {key} |->
        IF k = key THEN (IF key \in DOMAIN clicks THEN clicks[key] ELSE 0) + value
        ELSE clicks[k]]

\* REDIS_CLIENT.hset(key, mapping={"count": value})
RedisHSet(key, value) ==
    [k \in DOMAIN clicks \cup {key} |-> IF k = key THEN value ELSE clicks[k]]

IdleClick == [pc |-> "idle", query |-> "", link |-> "", log |-> <<>>]

\* store_click_data is running in request c on the key k.
InFlight(c, k) ==
    /\ click[c].pc \in {"exists", "hincrby", "hset"}
    /\ ClickKey(click[c].query, click[c].link) = k

RECURSIVE SumOver(_, _)
SumOver(f, S) ==
    IF S = {} THEN 0
    ELSE LET x == CHOOSE y \in S : TRUE IN f[x] + SumOver(f, S \ {x})

\* The store_click_data calls that have begun and have not failed.
Begun == SumOver(recorded, ClickKeys)
         + Cardinality({c \in Clickers : click[c].pc \in {"exists", "hincrby", "hset"}})

\* Mutant of ClickResponse: a failed recording is reported as recorded.
ClickResponseAlwaysSuccess(outcome) ==
    [status |-> "success", message |-> "Click data recorded"]

\* record_click: the response for the outcome of store_click_data
ClickResponse(outcome) ==
    IF outcome.type = "raise"
    THEN [status |-> "error", message |-> outcome.exc.msg]
    ELSE [status |-> "success", message |-> "Click data recorded"]

\* store_click_data of request c ends; record_click answers.
CompleteClick(c, outcome, log) ==
    /\ click' = [click EXCEPT ![c].pc = "done", ![c].log = log]
    /\ cresp' = [cresp EXCEPT ![c] = ClickResponse(outcome)]
    /\ recorded' = IF outcome.type = "raise" THEN recorded
                   ELSE [recorded EXCEPT ![ClickKey(click[c].query, click[c].link)] = @ + 1]

\* POST /click with body {query, link}
RecordClick(c, query, link) ==
    /\ click[c].pc = "idle"
    /\ Begun < MaxClicks
    /\ click' = [click EXCEPT ![c] =
          [IdleClick EXCEPT !.pc = "exists", !.query = query, !.link = link]]
    /\ overlapped' = IF \E d \in Clickers : InFlight(d, ClickKey(query, link))
                     THEN overlapped \cup {ClickKey(query, link)}
                     ELSE overlapped
    /\ UNCHANGED <<clicks, cresp, recorded, searchVars, envVars>>

\* if REDIS_CLIENT.exists(click_key)
Exists(c) ==
    /\ click[c].pc = "exists"
    /\ LET click_key == ClickKey(click[c].query, click[c].link)
           log(exc) == Append(click[c].log, Call("exists", click_key, exc))
       IN  \/ CompleteClick(c, Raise(ConnectionError), log(ConnectionError.cls))
           \/ /\ click' = [click EXCEPT ![c].log = log(""),
                   ![c].pc = IF RedisExists(click_key) THEN "hincrby" ELSE "hset"]
              /\ UNCHANGED <<cresp, recorded>>
    /\ UNCHANGED <<clicks, overlapped, searchVars, envVars>>

\* REDIS_CLIENT.hincrby(click_key, "count", 1)
HIncrBy(c) ==
    /\ click[c].pc = "hincrby"
    /\ LET click_key == ClickKey(click[c].query, click[c].link)
           log(exc) == Append(click[c].log, Call("hincrby", click_key, exc))
       IN  \/ /\ CompleteClick(c, Raise(ConnectionError), log(ConnectionError.cls))
              /\ UNCHANGED clicks
           \/ /\ clicks' = RedisHIncrBy(click_key, 1)
              /\ CompleteClick(c, Return(<<>>), log(""))
    /\ UNCHANGED <<overlapped, searchVars, envVars>>

\* REDIS_CLIENT.hset(click_key, mapping={"count": 1})
HSet(c) ==
    /\ click[c].pc = "hset"
    /\ LET click_key == ClickKey(click[c].query, click[c].link)
           log(exc) == Append(click[c].log, Call("hset", click_key, exc))
       IN  \/ /\ CompleteClick(c, Raise(ConnectionError), log(ConnectionError.cls))
              /\ UNCHANGED clicks
           \/ /\ clicks' = RedisHSet(click_key, 1)
              /\ CompleteClick(c, Return(<<>>), log(""))
    /\ UNCHANGED <<overlapped, searchVars, envVars>>

\* The caller has its answer; the slot serves the next request.
FinishClick(c) ==
    /\ click[c].pc = "done"
    /\ click' = [click EXCEPT ![c] = IdleClick]
    /\ cresp' = [cresp EXCEPT ![c] = NoResp]
    /\ UNCHANGED <<clicks, recorded, overlapped, searchVars, envVars>>

\* Nobody is reading pages.
NoReader == [on |-> FALSE, size |-> 0, page |-> 0, lst |-> <<>>, acc |-> <<>>,
             last |-> <<>>, from |-> {}, one |-> TRUE]

Init ==
    /\ cache = [k \in {} |-> [payload |-> <<>>, ttl |-> 0]]
    /\ clicks = [k \in {} |-> 0]
    /\ search = [s \in Searchers |-> IdleSearch]
    /\ resp = [s \in Searchers |-> NoResp]
    /\ click = [c \in Clickers |-> IdleClick]
    /\ cresp = [c \in Clickers |-> NoResp]
    /\ recorded = [k \in ClickKeys |-> 0]
    /\ overlapped = {}
    /\ written = [k \in {} |-> [results |-> <<>>, age |-> 0]]
    /\ stalled = FALSE
    /\ reader = NoReader

\* No search request is in flight.
SearchQuiet == \A s \in Searchers : search[s].pc = "idle"

\* One worker process serving the search endpoints: a handler runs to its end
\* before the next request is taken, while time passes in the store.
SearchNext ==
    \/ \E s \in Searchers, q \in SearchQueries, p \in EndpointPages :
          SearchQuiet /\ GetRecipes(s, q, p)
    \/ \E s \in Searchers, q \in SearchQueries, p \in DirectPages, n \in 1..MaxPageSize :
          SearchQuiet /\ GetRecipesByQuery(s, q, p, n)
    \/ \E s \in Searchers : CacheLookup(s)
    \/ \E s \in Searchers : Encode(s)
    \/ \E s \in Searchers : Search(s)
    \/ \E s \in Searchers : CacheWrite(s)
    \/ \E s \in Searchers : FinishSearch(s)
    \/ Tick

SearchSpec == Init /\ [][SearchNext]_vars

\* Click requests served by any number of workers against the shared store.
ClickNext ==
    \/ \E c \in Clickers, p \in ClickPairs : RecordClick(c, p[1], p[2])
    \/ \E c \in Clickers : Exists(c)
    \/ \E c \in Clickers : HIncrBy(c)
    \/ \E c \in Clickers : HSet(c)
    \/ \E c \in Clickers : FinishClick(c)

ClickSpec == Init /\ [][ClickNext]_vars

\* Texts another writer of the shared store can leave under a cache key: the
\* empty text, and a text cut off in the middle of a list.
ForeignTexts == {<<>>, <<"[", "{">>}

\* Another client of the store sets a cache key to a text of its own.
ForeignWrite(query_text, text) ==
    /\ cache' = RedisSetex(CacheKey(query_text), CACHE_EXPIRATION, text)
    /\ written' = [k \in DOMAIN written \ {CacheKey(query_text)} |-> written[k]]
    /\ UNCHANGED <<search, resp, clickVars, envVars>>

\* The search endpoints over a store that other clients write to as well.
SharedStoreNext ==
    \/ SearchNext
    \/ \E q \in SearchQueries, text \in ForeignTexts : ForeignWrite(q, text)

SharedStoreSpec == Init /\ [][SharedStoreNext]_vars

\* The store stops answering, for good.  REDIS_CLIENT is built without a
\* socket timeout, so a call made from now on never returns.
Stall ==
    /\ ~stalled
    /\ stalled' = TRUE
    /\ UNCHANGED <<searchVars, clickVars, reader>>

\* The next step of search request s: a call to the store returns only while
\* the store answers; the encoder runs in the process itself.
SearchStep(s) ==
    \/ ~stalled /\ CacheLookup(s)
    \/ Encode(s)
    \/ ~stalled /\ Search(s)
    \/ ~stalled /\ CacheWrite(s)

\* The next step of click request c.
ClickStep(c) ==
    ~stalled /\ (Exists(c) \/ HIncrBy(c) \/ HSet(c))

\* One search request and one click request at a time, each taken to its end,
\* against a store that may stall.
StallNext ==
    \/ Stall
    \/ \E s \in Searchers, p \in 1..MaxPage :
          SearchQuiet /\ GetRecipes(s, "Pasta", p)
    \/ \E c \in Clickers :
          (\A d \in Clickers : click[d].pc = "idle") /\ RecordClick(c, "a", "c")
    \/ \E s \in Searchers : SearchStep(s)
    \/ \E c \in Clickers : ClickStep(c)

\* A handler that can take its next step takes it.
StallSpec ==
    /\ Init
    /\ [][StallNext]_vars
    /\ \A s \in Searchers : WF_vars(SearchStep(s))
    /\ \A c \in Clickers : WF_vars(ClickStep(c))

\* Requests of GET /recipes for one query text served side by side, by the
\* workers or instances that share the store: each call of a request is one
\* step, and the steps of different requests interleave freely.  The requests
\* ask for the first or the last page.
RaceNext ==
    \/ \E s \in Searchers, p \in {1, MaxPage} : GetRecipes(s, "Pasta", p)
    \/ \E s \in Searchers : CacheLookup(s)
    \/ \E s \in Searchers : Encode(s)
    \/ \E s \in Searchers : Search(s)
    \/ \E s \in Searchers : CacheWrite(s)

RaceSpec == Init /\ [][RaceNext]_vars

\* A client of get_recipes_by_query sets out to read the results of "Pasta"
\* page by page, items_per_page at a time, from page 1.
StartReading(items_per_page) ==
    /\ ~reader.on
    /\ SearchQuiet
    /\ reader' = [NoReader EXCEPT !.on = TRUE, !.size = items_per_page]
    /\ UNCHANGED <<searchVars, clickVars, stalled>>

\* The client asks for the page after the last one it got: a call of
\* get_recipes_by_query, which then makes its calls step by step.
RequestPage(s) ==
    /\ reader.on
    /\ SearchQuiet
    /\ reader.page = 0 \/ reader.page < Len(reader.lst) + MaxPage
    /\ GetRecipesByQuery(s, "Pasta", reader.page + 1, reader.size)

\* get_recipes_by_query returns to the client, which appends the page to what
\* it has read.  The page was cut from the list the lookup parsed from the
\* cache entry when the lookup was the only call, else from the list the
\* search returned; one tells whether all pages so far were cut from the same
\* list.  A call that raised ends the reading.
ReadPage(s) ==
    /\ search[s].pc = "done"
    /\ LET r == search[s]
           hit == Len(r.log) = 1 /\ resp[s].type = "return"
           served == IF hit THEN r.cached ELSE r.results
       IN  reader' =
             IF resp[s].type = "return"
             THEN [reader EXCEPT
                     !.page = @ + 1,
                     !.last = resp[s].value,
                     !.acc = @ \o resp[s].value,
                     !.lst = IF reader.page = 0 THEN served ELSE @,
                     !.from = @ \cup {IF hit THEN "cache" ELSE "search"},
                     !.one = @ /\ (reader.page = 0 \/ served = reader.lst)]
             ELSE NoReader
    /\ search' = [search EXCEPT ![s] = IdleSearch]
    /\ resp' = [resp EXCEPT ![s] = NoResp]
    /\ UNCHANGED <<cache, written, clickVars, stalled>>

\* The client gives up reading.
StopReading ==
    /\ reader.on
    /\ SearchQuiet
    /\ reader' = NoReader
    /\ UNCHANGED <<searchVars, clickVars, stalled>>

\* One client reading pages through one worker, while entries expire.
PageNext ==
    \/ \E n \in 1..MaxPageSize : StartReading(n)
    \/ \E s \in Searchers : RequestPage(s)
    \/ \E s \in Searchers : CacheLookup(s)
    \/ \E s \in Searchers : Encode(s)
    \/ \E s \in Searchers : Search(s)
    \/ \E s \in Searchers : CacheWrite(s)
    \/ \E s \in Searchers : ReadPage(s)
    \/ StopReading
    \/ Tick

PageSpec == Init /\ [][PageNext]_vars

\* =================================================================== claims
\* The items at positions [(p-1)*s, p*s) of lst, none when the range is past
\* the end.
ExpectedPage(lst, p, s) ==
    LET lo == (p - 1) * s
        hi == IF p * s < Len(lst) THEN p * s ELSE Len(lst)
    IN  [i \in 1..(hi - lo) |-> lst[lo + i]]

Last(seq) == seq[Len(seq)]
Ops(log) == [i \in 1..Len(log) |-> log[i].op]
Succeeded(r) == r.type \in {"return", "page"}
Items(r) == IF r.type = "page" THEN r.results ELSE r.value
Finished(s) == search[s].pc = "done"

\* Request s makes its cache lookup in this step and the store answers it.
LookupAnswered(s) ==
    /\ search[s].pc = "get"
    /\ search'[s].pc # "get"
    /\ Last(search'[s].log).exc = ""

\* C1: a lookup that finds an unexpired entry of N >= 1 items returns exactly
\* the items [(p-1)*s, p*s) of the cached order (none past the end), calls
\* neither the encoder nor the search backend, and leaves the store as it is.
C1_CacheHitPage ==
    [][\A s \in Searchers : \A d \in SearchDocs :
        ( /\ LookupAnswered(s)
          /\ search[s].page >= 1
          /\ Len(d) >= 1
          /\ CacheKey(search[s].query) \in DOMAIN cache
          /\ cache[CacheKey(search[s].query)].payload = Str(ResultsList(d)) )
        => /\ search'[s].pc = "done"
           /\ Succeeded(resp'[s])
           /\ Items(resp'[s]) =
                ExpectedPage(ResultsList(d), search[s].page, search[s].ipp)
           /\ Ops(search'[s].log) = <<"get">>
           /\ cache' = cache]_vars

\* C1 witness: a request for page 2 was answered from the cache alone.
C1_Witness ==
    \E s \in Searchers :
        /\ Finished(s)
        /\ search[s].page = 2
        /\ Ops(search[s].log) = <<"get">>
        /\ Succeeded(resp[s])
        /\ Items(resp[s]) # <<>>

\* C2: a lookup that finds no entry goes on to the encoder; a request whose
\* cache write succeeds has called get, encode, search and setex once each in
\* that order, the entry under its key reads back as the full result list, and
\* it returns the items [(p-1)*s, p*s) of that full list.
C2_MissPipeline ==
    [][\A s \in Searchers :
        /\ ( LookupAnswered(s) /\ CacheKey(search[s].query) \notin DOMAIN cache )
           => /\ search'[s].pc = "encode"
              /\ cache' = cache
        /\ ( /\ search[s].pc = "setex"
             /\ search'[s].pc = "done"
             /\ Last(search'[s].log).exc = ""
             /\ search[s].page >= 1 )
           => /\ Ops(search'[s].log) = <<"get", "encode", "search", "setex">>
              /\ CacheKey(search[s].query) \in DOMAIN cache'
              /\ ~Eval(cache'[CacheKey(search[s].query)].payload).raised
              /\ Eval(cache'[CacheKey(search[s].query)].payload).value
                   = search[s].results
              /\ Succeeded(resp'[s])
              /\ Items(resp'[s]) =
                   ExpectedPage(search[s].results, search[s].page, search[s].ipp)]_vars

\* C2 witness: a miss ran the whole pipeline, cached four items and returned
\* the second page of them.
C2_Witness ==
    \E s \in Searchers :
        /\ Finished(s)
        /\ Ops(search[s].log) = <<"get", "encode", "search", "setex">>
        /\ Last(search[s].log).exc = ""
        /\ Len(search[s].results) = 4
        /\ search[s].page = 2
        /\ Items(resp[s]) # <<>>
        /\ CacheKey(search[s].query) \in DOMAIN cache

\* The cache write of the finished request s raised the exception class cls.
WriteRaised(s, cls) ==
    /\ Finished(s)
    /\ search[s].log # <<>>
    /\ Last(search[s].log).op = "setex"
    /\ Last(search[s].log).exc = cls

\* C3: when the cache write raises OutOfMemoryError the request still returns
\* the items [(p-1)*s, p*s) of the freshly searched list and raises nothing.
C3_OutOfMemoryTolerated ==
    \A s \in Searchers :
        ( WriteRaised(s, "OutOfMemoryError") /\ search[s].page >= 1 )
        => /\ Succeeded(resp[s])
           /\ Items(resp[s]) =
                ExpectedPage(search[s].results, search[s].page, search[s].ipp)

\* C3 witness: a write ran out of memory and a non-empty page was returned.
C3_Witness ==
    \E s \in Searchers :
        /\ WriteRaised(s, "OutOfMemoryError")
        /\ Succeeded(resp[s])
        /\ Items(resp[s]) # <<>>

\* C4 (as claimed): whatever exception the cache write raises, the request
\* still returns the items [(p-1)*s, p*s) of the freshly searched list.
C4_AnyWriteFailureTolerated ==
    \A s \in Searchers :
        ( /\ Finished(s)
          /\ search[s].log # <<>>
          /\ Last(search[s].log).op = "setex"
          /\ Last(search[s].log).exc # ""
          /\ search[s].page >= 1 )
        => /\ Succeeded(resp[s])
           /\ Items(resp[s]) =
                ExpectedPage(search[s].results, search[s].page, search[s].ipp)

\* C5: when the encoder or the search backend raises, get_recipes_by_query
\* raises that exception, get_recipes answers {error: message} and nothing
\* else, the request has made no cache write and the store is unchanged.
C5_SearchFailurePropagates ==
    [][\A s \in Searchers :
        ( /\ search[s].pc \in {"encode", "search"}
          /\ search'[s].pc # search[s].pc
          /\ Last(search'[s].log).exc # "" )
        => LET exc == IF search[s].pc = "encode" THEN EncoderError
                      ELSE ResponseError
           IN  /\ search'[s].pc = "done"
               /\ search[s].via = "get_recipes_by_query"
                    => resp'[s] = [type |-> "raise", exc |-> exc]
               /\ search[s].via = "get_recipes"
                    => resp'[s] = [type |-> "error", error |-> exc.msg]
               /\ \A i \in 1..Len(search'[s].log) : search'[s].log[i].op # "setex"
               /\ cache' = cache]_vars

\* C5 witness: the backend failed under the endpoint, which answered the error.
C5_Witness ==
    \E s \in Searchers :
        /\ Finished(s)
        /\ search[s].via = "get_recipes"
        /\ Ops(search[s].log) = <<"get", "encode", "search">>
        /\ Last(search[s].log).exc = "ResponseError"
        /\ resp[s].type = "error"

\* C6: get_recipes with page < 1 answers the validation error at once: the
\* request calls no external dependency and the store is unchanged.
C6_InvalidPageRejected ==
    [][\A s \in Searchers :
        ( /\ search[s].pc = "idle"
          /\ search'[s].via = "get_recipes"
          /\ search'[s].page < 1 )
        => /\ search'[s].pc = "done"
           /\ resp'[s] = [type |-> "error",
                          error |-> "Page number must be greater than 0"]
           /\ search'[s].log = <<>>
           /\ cache' = cache
           /\ clicks' = clicks]_vars

\* C6 witness: page 0 was asked for and the validation error was answered.
C6_Witness ==
    \E s \in Searchers :
        /\ Finished(s)
        /\ search[s].via = "get_recipes"
        /\ search[s].page = 0
        /\ resp[s].type = "error"
        /\ search[s].log = <<>>

\* C7: a successful get_recipes response has has_more exactly when the page
\* holds 3 items; of a searched list of exactly 3 items, page 1 is the whole
\* list with has_more and page 2 is empty without has_more.
C7_HasMoreIffFullPage ==
    \A s \in Searchers :
        resp[s].type = "page"
        => /\ resp[s].has_more <=> (Len(resp[s].results) = 3)
           /\ ( Len(search[s].log) = 4 /\ Len(search[s].results) = 3 )
              => /\ search[s].page = 1
                    => resp[s].results = search[s].results /\ resp[s].has_more
                 /\ search[s].page = 2
                    => resp[s].results = <<>> /\ ~resp[s].has_more

\* C7 witness: page 1 of a searched list of exactly 3 items, with has_more.
C7_Witness ==
    \E s \in Searchers :
        /\ resp[s].type = "page"
        /\ Len(search[s].log) = 4
        /\ Len(search[s].results) = 3
        /\ search[s].page = 1
        /\ Len(resp[s].results) = 3
        /\ resp[s].has_more

\* The key "clicks:{query}:{link}" of each (query, link) pair, written out.
ExpectedClickKey(query, link) ==
    CASE query = "a" /\ link = "c" -> "clicks:a:c"
      [] query = "a" /\ link = "b:c" -> "clicks:a:b:c"
      [] query = "a:b" /\ link = "c" -> "clicks:a:b:c"

\* C8: on a key whose store_click_data calls never overlapped, no record
\* exists before the first completed call and afterwards the count equals the
\* number of completed calls (1 after the first, one more after each later
\* one); every store call of a click request uses the key
\* "clicks:{query}:{link}" and no other key is ever created.
C8_ClickAccumulation ==
    /\ \A k \in ClickKeys :
          k \notin overlapped
          => IF recorded[k] = 0 THEN k \notin DOMAIN clicks
             ELSE k \in DOMAIN clicks /\ clicks[k] = recorded[k]
    /\ \A c \in Clickers : \A i \in 1..Len(click[c].log) :
          click[c].log[i].key = ExpectedClickKey(click[c].query, click[c].link)
    /\ DOMAIN clicks \subseteq {"clicks:a:c", "clicks:a:b:c"}

\* C8 witness: four calls on one key, none overlapping, and the count is 4.
C8_Witness ==
    \E k \in ClickKeys :
        /\ k \notin overlapped
        /\ recorded[k] = 4
        /\ k \in DOMAIN clicks
        /\ clicks[k] = 4

\* C9 (as claimed): from one state to the next no click record disappears and
\* no count decreases, whatever the interleaving of store_click_data calls.
C9_CountNeverDecreases ==
    [][\A k \in DOMAIN clicks :
          k \in DOMAIN clicks' /\ clicks'[k] >= clicks[k]]_vars

\* The key "search_cache:" + query text of each query text, written out.
ExpectedCacheKey(query_text) ==
    CASE query_text = "Pasta" -> "search_cache:Pasta"
      [] query_text = "pasta" -> "search_cache:pasta"

\* C10: every step of a request reads and writes the store only under
\* "search_cache:" + its raw query text: its get and setex calls name that
\* key, a hit returns the slice of the entry under that key, a successful
\* write puts its results under that key, and the entry of every other key
\* is left as it was.
C10_CacheKeyExact ==
    [][\A s \in Searchers :
        ( search[s].pc \in {"get", "encode", "search", "setex"}
          /\ search'[s] # search[s] )
        => LET key == ExpectedCacheKey(search[s].query)
               log == search'[s].log
           IN  /\ \A i \in 1..Len(log) :
                     log[i].op \in {"get", "setex"} => log[i].key = key
               /\ \A k \in (DOMAIN cache \cup DOMAIN cache') \ {key} :
                     /\ k \in DOMAIN cache
                     /\ k \in DOMAIN cache'
                     /\ cache'[k] = cache[k]
               /\ ( search[s].pc = "setex" /\ Last(log).exc = "" )
                  => /\ key \in DOMAIN cache'
                     /\ cache'[key].payload = Str(search[s].results)
               /\ ( /\ search[s].pc = "get"
                    /\ search'[s].pc = "done"
                    /\ Succeeded(resp'[s])
                    /\ search[s].page >= 1 )
                  => /\ key \in DOMAIN cache
                     /\ Items(resp'[s]) =
                          ExpectedPage(Eval(cache[key].payload).value,
                                       search[s].page, search[s].ipp)]_vars

\* C10 witness: "Pasta" and "pasta" each have an entry, with different lists.
C10_Witness ==
    /\ "search_cache:Pasta" \in DOMAIN cache
    /\ "search_cache:pasta" \in DOMAIN cache
    /\ cache["search_cache:Pasta"].payload # cache["search_cache:pasta"].payload
    /\ Cardinality(DOMAIN cache) = 2

\* C11: every entry is written with a TTL of 3 and lives exactly 3 time units:
\* no step but the passing of time removes an entry, and it removes exactly
\* the entries written 3 units ago; no step but a cache write changes a stored
\* list; a lookup neither changes an entry nor its TTL; a hit returns the
\* slice of a list written less than 3 units ago; a lookup that finds no
\* entry goes on to the encoder.
C11_TTLExpiry ==
    [][/\ \A k \in DOMAIN cache' :
             /\ cache'[k].ttl \in 1..3
             /\ k \in DOMAIN written'
             /\ written'[k].age + cache'[k].ttl = 3
       /\ \A k \in DOMAIN cache :
             /\ k \notin DOMAIN cache'
                  => search' = search /\ cache[k].ttl = 1 /\ written[k].age = 2
             /\ ( k \in DOMAIN cache' /\ cache'[k].payload # cache[k].payload )
                  => \E s \in Searchers :
                        search[s].pc = "setex" /\ CacheKey(search[s].query) = k
       /\ \A s \in Searchers :
             /\ ( /\ search[s].pc = "setex"
                  /\ search'[s].pc = "done"
                  /\ Last(search'[s].log).exc = "" )
                => cache'[CacheKey(search[s].query)].ttl = 3
             /\ LookupAnswered(s) => cache' = cache
             /\ ( LookupAnswered(s) /\ CacheKey(search[s].query) \notin DOMAIN cache )
                => search'[s].pc = "encode"
             /\ ( /\ LookupAnswered(s)
                  /\ search'[s].pc = "done"
                  /\ Succeeded(resp'[s])
                  /\ search[s].page >= 1 )
                => /\ CacheKey(search[s].query) \in DOMAIN written
                   /\ written[CacheKey(search[s].query)].age < 3
                   /\ Items(resp'[s]) =
                        ExpectedPage(written[CacheKey(search[s].query)].results,
                                     search[s].page, search[s].ipp)]_vars

\* C11 witness: a request was answered from an entry that is 2 time units old.
C11_Witness ==
    \E s \in Searchers :
        /\ Finished(s)
        /\ Ops(search[s].log) = <<"get">>
        /\ Succeeded(resp[s])
        /\ Items(resp[s]) # <<>>
        /\ CacheKey(search[s].query) \in DOMAIN cache
        /\ written[CacheKey(search[s].query)].age = 2
        /\ cache[CacheKey(search[s].query)].ttl = 1

\* C12: a finished click request whose store call raised is answered
\* {status: "error", message: the error text}, one whose store calls all
\* returned is answered {status: "success", message: "Click data recorded"};
\* the endpoint never hands an exception to its caller.
C12_ClickFailureContained ==
    \A c \in Clickers :
        click[c].pc = "done"
        => /\ click[c].log # <<>>
           /\ IF Last(click[c].log).exc # ""
              THEN cresp[c] = [status |-> "error",
                               message |-> "Error connecting to redis"]
              ELSE /\ cresp[c] = [status |-> "success",
                                  message |-> "Click data recorded"]
                   /\ Last(click[c].log).op \in {"hset", "hincrby"}

\* C12 witness: the increment failed and the endpoint answered the error.
C12_Witness ==
    \E c \in Clickers :
        /\ click[c].pc = "done"
        /\ Ops(click[c].log) = <<"exists", "hincrby">>
        /\ Last(click[c].log).exc = "ConnectionError"
        /\ cresp[c].status = "error"

\* C13 (as claimed): a lookup whose get raises, or that finds a text eval
\* cannot parse, ends the request with an error: no encoder call, no search,
\* no cache write, and the endpoint answers {error: ...}.
C13_ReadFailureFatal ==
    [][\A s \in Searchers :
        ( /\ search[s].pc = "get"
          /\ search'[s].pc # "get"
          /\ \/ Last(search'[s].log).exc # ""
             \/ /\ CacheKey(search[s].query) \in DOMAIN cache
                /\ Eval(cache[CacheKey(search[s].query)].payload).raised )
        => /\ search'[s].pc = "done"
           /\ Ops(search'[s].log) = <<"get">>
           /\ resp'[s].type = (IF search[s].via = "get_recipes" THEN "error"
                               ELSE "raise")
           /\ cache' = cache]_vars

\* C14 (as claimed): every request that has begun is eventually answered,
\* also when the store stalls for good.
C14_RequestsComplete ==
    /\ \A s \in Searchers :
          (search[s].pc \in {"get", "encode", "search", "setex"})
             ~> (search[s].pc = "done")
    /\ \A c \in Clickers :
          (click[c].pc \in {"exists", "hset", "hincrby"})
             ~> (click[c].pc = "done")

\* C15 (as claimed): a lookup that finds an unexpired entry, whatever list it
\* holds, the empty list included, ends the request with the slice of that
\* list: no encoder call, no search, and the entry is not rewritten.
C15_PresenceIsHit ==
    [][\A s \in Searchers :
        ( /\ LookupAnswered(s)
          /\ search[s].page >= 1
          /\ CacheKey(search[s].query) \in DOMAIN cache )
        => /\ search'[s].pc = "done"
           /\ Ops(search'[s].log) = <<"get">>
           /\ Succeeded(resp'[s])
           /\ Items(resp'[s]) =
                ExpectedPage(written[CacheKey(search[s].query)].results,
                             search[s].page, search[s].ipp)
           /\ cache' = cache]_vars

\* C16: after every step each cache entry parses to exactly the full list
\* that the one search behind its last write returned, a list of at most 100
\* items as the backend ranks them; a step of a request that is not its cache
\* write, a paginated read above all, leaves every entry as it was.
C16_StoredEntryIsFullList ==
    [][/\ \A k \in DOMAIN cache' :
             /\ k \in DOMAIN written'
             /\ ~Eval(cache'[k].payload).raised
             /\ Eval(cache'[k].payload).value = written'[k].results
             /\ Len(written'[k].results) <= KNN
             /\ \E d \in SearchDocs : written'[k].results = ResultsList(d)
       /\ \A s \in Searchers :
             /\ ( search[s].pc = "search" /\ search'[s].pc = "setex" )
                => \E d \in SearchDocs : search'[s].results = ResultsList(d)
             /\ ( /\ search[s].pc = "setex"
                  /\ search'[s].pc = "done"
                  /\ Last(search'[s].log).exc = "" )
                => written'[CacheKey(search[s].query)].results = search[s].results
             /\ ( search'[s] # search[s] /\ search[s].pc # "setex" )
                => \A k \in DOMAIN cache \cup DOMAIN cache' :
                      /\ k \in DOMAIN cache
                      /\ k \in DOMAIN cache'
                      /\ cache'[k].payload = cache[k].payload]_vars

\* C16 witness: page 2 was read from an entry that still holds all 4 items.
C16_Witness ==
    \E s \in Searchers :
        /\ Finished(s)
        /\ Ops(search[s].log) = <<"get">>
        /\ search[s].page = 2
        /\ Succeeded(resp[s])
        /\ Len(Items(resp[s])) = 1
        /\ CacheKey(search[s].query) \in DOMAIN cache
        /\ Len(Eval(cache[CacheKey(search[s].query)].payload).value) = 4

\* Request s ran the whole miss pipeline and no call of it raised.
RanMissPipeline(s) ==
    /\ search[s].pc = "done"
    /\ Ops(search[s].log) = <<"get", "encode", "search", "setex">>
    /\ \A i \in 1..Len(search[s].log) : search[s].log[i].exc = ""

\* Request s finishes its cache write in this step and the store accepts it.
WriteAccepted(s) ==
    /\ search[s].pc = "setex"
    /\ search'[s].pc = "done"
    /\ Last(search'[s].log).exc = ""

\* C17: with requests for one query text interleaved, a request that is under
\* way can always take its next step whatever the others do; an accepted cache
\* write replaces the entry by the writer's own full list and the writer
\* returns its own page; and once two requests have both run the whole miss
\* pipeline, with no third writer, both have a successful page and the entry
\* is the full list of one of the two searches.
C17_MissRace ==
    [][\A s \in Searchers :
          /\ search[s].pc \in {"get", "encode", "search", "setex"}
             => ENABLED SearchStep(s)
          /\ WriteAccepted(s)
             => /\ cache'[CacheKey(search[s].query)].payload = Str(search[s].results)
                /\ Succeeded(resp'[s])
                /\ Items(resp'[s]) =
                     ExpectedPage(search[s].results, search[s].page, search[s].ipp)
          /\ \A t \in Searchers \ {s} :
                ( /\ RanMissPipeline(s)'
                  /\ RanMissPipeline(t)'
                  /\ search'[s].query = search'[t].query
                  /\ \A u \in Searchers \ {s, t} :
                        "setex" \notin {search'[u].log[i].op : i \in 1..Len(search'[u].log)} )
                => /\ Succeeded(resp'[s])
                   /\ Succeeded(resp'[t])
                   /\ Items(resp'[s]) =
                        ExpectedPage(search'[s].results, search'[s].page, search'[s].ipp)
                   /\ cache'[CacheKey(search'[s].query)].payload
                        \in {Str(search'[s].results), Str(search'[t].results)}]_vars

\* C17 witness: two requests for the same text both missed, both searched and
\* both wrote; their searches returned different lists and the entry holds
\* one of them.
C17_Witness ==
    \E s \in Searchers, t \in Searchers :
        /\ s # t
        /\ RanMissPipeline(s)
        /\ RanMissPipeline(t)
        /\ search[s].query = search[t].query
        /\ search[s].results # <<>>
        /\ search[t].results # <<>>
        /\ search[s].results # search[t].results
        /\ Succeeded(resp[s])
        /\ Succeeded(resp[t])
        /\ cache[CacheKey(search[s].query)].payload = Str(search[t].results)

\* Request c has finished store_click_data on key k by the calls ops, none of
\* which raised.
ClickedBy(c, k, ops) ==
    /\ click[c].pc = "done"
    /\ ClickKey(click[c].query, click[c].link) = k
    /\ Ops(click[c].log) = ops
    /\ \A i \in 1..Len(click[c].log) : click[c].log[i].exc = ""

\* C18: once exactly two store_click_data calls have succeeded on a key that
\* had no record, the count is 1 or 2; it is 1 only if calls on the key
\* overlapped, and it is 1 whenever both calls took the create path.
C18_FirstClickRace ==
    \A k \in ClickKeys :
        recorded[k] = 2
        => /\ k \in DOMAIN clicks
           /\ clicks[k] \in {1, 2}
           /\ clicks[k] = 1 => k \in overlapped
           /\ \A c \in Clickers, d \in Clickers :
                 ( /\ c # d
                   /\ ClickedBy(c, k, <<"exists", "hset">>)
                   /\ ClickedBy(d, k, <<"exists", "hset">>) )
                 => clicks[k] = 1

\* C18 witness: two calls on one key both found no record, both created it,
\* and the count is 1.
C18_Witness ==
    \E k \in ClickKeys, c \in Clickers, d \in Clickers :
        /\ c # d
        /\ recorded[k] = 2
        /\ ClickedBy(c, k, <<"exists", "hset">>)
        /\ ClickedBy(d, k, <<"exists", "hset">>)
        /\ click[c].query = click[d].query
        /\ click[c].link = click[d].link
        /\ clicks[k] = 1

\* C19: a client that has read pages 1..p, s items at a time, all of them cut
\* from one list of N items (one cache entry, or searches returning that
\* list), holds the first min(N, p*s) items of the list in the list's order;
\* page p is the items [(p-1)*s, p*s); from page ceil(N/s) on the client holds
\* the whole list and every later page is empty.
C19_PagesTile ==
    ( reader.on /\ reader.one /\ reader.page >= 1 )
    => LET N == Len(reader.lst)
           s == reader.size
           p == reader.page
           pages == (N + s - 1) \div s
       IN  /\ reader.acc = SubSeq(reader.lst, 1, IF p * s < N THEN p * s ELSE N)
           /\ reader.last = ExpectedPage(reader.lst, p, s)
           /\ p \in 1..pages => reader.last # <<>>
           /\ p >= pages => reader.acc = reader.lst
           /\ p > pages => reader.last = <<>>

\* C19 witness: 4 items read 3 at a time, page 1 from the search and a later
\* page from the cache entry it left: after page 3 the client holds the 4
\* items in order, the last page being empty.
C19_Witness ==
    /\ reader.on
    /\ reader.one
    /\ reader.from = {"cache", "search"}
    /\ Len(reader.lst) = 4
    /\ reader.size = 3
    /\ reader.page = 3
    /\ reader.acc = reader.lst
    /\ reader.last = <<>>

\* The count the store holds for the pair p: 0 when it has no record.
CountOf(p) ==
    IF ClickKey(p[1], p[2]) \in DOMAIN clicks THEN clicks[ClickKey(p[1], p[2])] ELSE 0

\* C20 (as claimed): a store_click_data call for one (query, link) pair that
\* writes the store leaves the count of every other pair as it was.
C20_RecordsPerPair ==
    [][\A c \in Clickers, p \in ClickPairs :
          ( /\ click[c].pc \in {"hincrby", "hset"}
            /\ click'[c].pc = "done"
            /\ <<click[c].query, click[c].link>> # p )
          => ( IF ClickKey(p[1], p[2]) \in DOMAIN clicks'
               THEN clicks'[ClickKey(p[1], p[2])] ELSE 0 ) = CountOf(p)]_vars
====
